---- MODULE Spec2Model ----
(***************************************************************************)
(* FLOPs calculator of flopmaster: the matrix-multiplication FLOPs engine, *)
(* the execution-time estimator, the GPU and precision catalogs, and the   *)
(* MatrixFlopsCalculator component that drives them; the option list of   *)
(* the MaterialSelect dropdown; and the step-by-step animation of          *)
(* DistributedOperations with its Auto Play timer and its NVLink lines.    *)
(*                                                                         *)
(* Numbers.  A JavaScript number is modelled as an exact value             *)
(*   [k |-> "fin", n, d, e]   the rational (n / d) * 10^e, d > 0           *)
(*   [k |-> "inf", n = 1 or -1]   Infinity and -Infinity                   *)
(*   [k |-> "nan"]                NaN                                      *)
(* Arithmetic on finite values is exact; the rounding of IEEE-754 doubles  *)
(* is not modelled, so the model speaks for values inside the range in     *)
(* which the code's products and quotients are exact or compared away from *)
(* a rounding boundary.  Matrix dimensions and operation counts are plain  *)
(* integers (exact in a double below 2^53).                                *)
(***************************************************************************)
EXTENDS Integers, Sequences, FiniteSets, TLC

VARIABLES
  matrixA,            \* useState<MatrixDimensions>({ rows: 3, cols: 4 })
  matrixB,            \* useState<MatrixDimensions>({ rows: 4, cols: 5 })
  selectedGpu,        \* useState<NvidiaGpu | null>(nvidiaGpus[0])
  selectedPrecision,  \* useState<PrecisionType>(precisionTypes[0])
  gpuCatalog,         \* the array that the module constant nvidiaGpus holds
  precisionTable,     \* the array that the module constant precisionTypes holds
  call,               \* a direct call of one of the pure functions: its arguments
  ret,                \* what that call returned (NoRet before it has run)
  selectedOperation,  \* useState<Operation>(operations[0])
  animationKey,       \* useState(0), the key of OperationVisualization
  currentStep,        \* useState(0)
  isPlaying,          \* useState(false)
  completedCells,     \* useState<Set<string>>(new Set())
  showExplanation,    \* useState(true)
  timer,              \* the pending setTimeout of the visualization's effect
  lastInput,          \* the handler that the last click ran ("none" at mount)
  connectionsRef,     \* NVLinkConnections: connectionsRef.current
  shownLinks          \* NVLinkConnections: the lines that the last render drew

calcVars == <<matrixA, matrixB, selectedGpu, selectedPrecision>>
fnVars == <<call, ret>>
catVars == <<gpuCatalog, precisionTable>>
animVars ==
  <<selectedOperation, animationKey, currentStep, isPlaying, completedCells,
    showExplanation, timer, lastInput, connectionsRef, shownLinks>>
vars ==
  <<matrixA, matrixB, selectedGpu, selectedPrecision, gpuCatalog,
    precisionTable, call, ret, selectedOperation, animationKey, currentStep,
    isPlaying, completedCells, showExplanation, timer, lastInput,
    connectionsRef, shownLinks>>

(***************************************************************************)
(* JavaScript numbers                                                      *)
(***************************************************************************)
Fin(n, d, e) == [k |-> "fin", n |-> n, d |-> d, e |-> e]
Dec(n, d) == Fin(n, d, 0)
Sci(n, e) == Fin(n, 1, e)
Int2Num(i) == Fin(i, 1, 0)
Infinity(sign) == [k |-> "inf", n |-> sign, d |-> 1, e |-> 0]
NaN == [k |-> "nan", n |-> 0, d |-> 1, e |-> 0]
One == Int2Num(1)

Abs(i) == IF i < 0 THEN 0 - i ELSE i
Sgn(i) == IF i < 0 THEN 0 - 1 ELSE IF i = 0 THEN 0 ELSE 1

RECURSIVE Pow10(_)
Pow10(j) == IF j <= 0 THEN 1 ELSE 10 * Pow10(j - 1)

\* x * y
NumMul(x, y) ==
  IF x.k = "nan" \/ y.k = "nan" THEN NaN
  ELSE IF x.k = "inf" \/ y.k = "inf"
    THEN IF x.n = 0 \/ y.n = 0 THEN NaN ELSE Infinity(Sgn(x.n) * Sgn(y.n))
  ELSE Fin(x.n * y.n, x.d * y.d, x.e + y.e)

\* x / y; a finite value over zero is an infinity, zero over zero is NaN
NumDiv(x, y) ==
  IF x.k = "nan" \/ y.k = "nan" THEN NaN
  ELSE IF x.k = "inf"
    THEN IF y.k = "inf" THEN NaN
         ELSE Infinity(IF y.n < 0 THEN 0 - x.n ELSE x.n)
  ELSE IF y.k = "inf" THEN Int2Num(0)
  ELSE IF y.n = 0
    THEN IF x.n = 0 THEN NaN ELSE Infinity(Sgn(x.n))
  ELSE Fin(x.n * y.d * Sgn(y.n), x.d * Abs(y.n), x.e - y.e)

\* x >= 1 for a finite x = (n / d) * 10^e, without leaving the integer range
FinGeOne(x) ==
  IF x.n <= 0 THEN FALSE
  ELSE IF x.e >= 0
    THEN IF x.e >= 10 THEN TRUE
         ELSE Pow10(x.e) >= (x.d + x.n - 1) \div x.n
  ELSE IF 0 - x.e >= 10 THEN FALSE
  ELSE x.n \div Pow10(0 - x.e) >= x.d

\* x >= y for a finite y > 0; every comparison with NaN is false
NumGE(x, y) ==
  IF x.k = "nan" \/ y.k = "nan" THEN FALSE
  ELSE IF x.k = "inf" THEN x.n > 0
  ELSE FinGeOne(NumDiv(x, y))

\* a finite x = (n / d) * 10^e is exactly 1
FinIsOne(x) ==
  IF x.e = 0 THEN x.n = x.d
  ELSE IF x.e > 0
    THEN x.e < 10 /\ x.d % Pow10(x.e) = 0 /\ x.d \div Pow10(x.e) = x.n
  ELSE 0 - x.e < 10 /\ x.n % Pow10(0 - x.e) = 0
         /\ x.n \div Pow10(0 - x.e) = x.d

\* x and y are the same number (NaN equals nothing)
NumEq(x, y) ==
  IF x.k = "nan" \/ y.k = "nan" THEN FALSE
  ELSE IF x.k = "inf" \/ y.k = "inf" THEN x.k = y.k /\ x.n = y.n
  ELSE IF x.n = 0 \/ y.n = 0 THEN x.n = y.n
  ELSE FinIsOne(NumDiv(x, y))

NumIsZero(x) == x.k = "fin" /\ x.n = 0
NumIsNeg(x) == (x.k = "fin" /\ x.n < 0) \/ (x.k = "inf" /\ x.n < 0)
NumIsPos(x) == (x.k = "fin" /\ x.n > 0) \/ (x.k = "inf" /\ x.n > 0)

(***************************************************************************)
(* Number.prototype.toFixed(f): the decimal string of x with f fraction    *)
(* digits, the nearest such value, the larger one on a tie; "-" in front   *)
(* of a negative x; "Infinity", "-Infinity" and "NaN" for the others.      *)
(* A string of digits is modelled by the integer it spells without the     *)
(* point: [scaled |-> 5385, decimals |-> 3] is "5.385".                    *)
(***************************************************************************)
RECURSIVE LongDiv(_, _, _, _)
LongDiv(q, r, d, steps) ==
  IF steps = 0 THEN q + (IF 2 * r >= d THEN 1 ELSE 0)
  ELSE LongDiv(q * 10 + ((r * 10) \div d), (r * 10) % d, d, steps - 1)

\* round(n / d * 10^j) for n >= 0, d > 0, halves rounded up
RoundScaled(n, d, j) ==
  IF j >= 0 THEN LongDiv(n \div d, n % d, d, j)
  ELSE IF 0 - j >= 10 THEN 0
  ELSE LET q1 == n \div d
           p == Pow10(0 - j)
       IN (q1 \div p) + (IF 2 * (q1 % p) >= p THEN 1 ELSE 0)

DigitString(neg, scaled, decimals) ==
  [txt |-> "digits", neg |-> neg, scaled |-> scaled, decimals |-> decimals]

toFixed(x, f) ==
  IF x.k = "nan" THEN [txt |-> "NaN", neg |-> FALSE, scaled |-> 0, decimals |-> 0]
  ELSE IF x.k = "inf"
    THEN [txt |-> "Infinity", neg |-> x.n < 0, scaled |-> 0, decimals |-> 0]
  ELSE DigitString(x.n < 0, RoundScaled(Abs(x.n), x.d, x.e + f), f)

(***************************************************************************)
(* The catalogs                                                            *)
(***************************************************************************)
Null == [kind |-> "null"]

Gpu(name, series, architecture, tflops, memory, releaseYear) ==
  [name |-> name, series |-> series, architecture |-> architecture,
   tflops |-> tflops, memory |-> memory, releaseYear |-> releaseYear]

nvidiaGpus ==
  << Gpu("H100 PCIe", "Hopper", "Hopper", Dec(67, 1), "80GB", 2022),
     Gpu("H100 SXM", "Hopper", "Hopper", Dec(67, 1), "80GB", 2022),
     Gpu("H100 NVL", "Hopper", "Hopper", Dec(1000, 1), "188GB", 2023),
     Gpu("A100 PCIe 40GB", "Ampere", "Ampere", Dec(195, 10), "40GB", 2020),
     Gpu("A100 PCIe 80GB", "Ampere", "Ampere", Dec(195, 10), "80GB", 2020),
     Gpu("A100 SXM 40GB", "Ampere", "Ampere", Dec(195, 10), "40GB", 2020),
     Gpu("A100 SXM 80GB", "Ampere", "Ampere", Dec(195, 10), "80GB", 2020),
     Gpu("L40", "Ada Lovelace", "Ada Lovelace", Dec(487, 10), "48GB", 2022),
     Gpu("L40S", "Ada Lovelace", "Ada Lovelace", Dec(916, 10), "48GB", 2023),
     Gpu("L4", "Ada Lovelace", "Ada Lovelace", Dec(303, 10), "24GB", 2022),
     Gpu("V100 PCIe 16GB", "Volta", "Volta", Dec(157, 10), "16GB", 2017),
     Gpu("V100 PCIe 32GB", "Volta", "Volta", Dec(157, 10), "32GB", 2017),
     Gpu("V100 SXM 16GB", "Volta", "Volta", Dec(157, 10), "16GB", 2017),
     Gpu("V100 SXM 32GB", "Volta", "Volta", Dec(157, 10), "32GB", 2017),
     Gpu("P100 PCIe", "Pascal", "Pascal", Dec(93, 10), "16GB", 2016),
     Gpu("P100 SXM", "Pascal", "Pascal", Dec(106, 10), "16GB", 2016),
     Gpu("RTX 4090", "GeForce RTX 40", "Ada Lovelace", Dec(83, 1), "24GB", 2022),
     Gpu("RTX 4080", "GeForce RTX 40", "Ada Lovelace", Dec(487, 10), "16GB", 2022),
     Gpu("RTX 4070 Ti", "GeForce RTX 40", "Ada Lovelace", Dec(401, 10), "12GB", 2023),
     Gpu("RTX 4070", "GeForce RTX 40", "Ada Lovelace", Dec(291, 10), "12GB", 2023),
     Gpu("RTX 4060 Ti 16GB", "GeForce RTX 40", "Ada Lovelace", Dec(221, 10), "16GB", 2023),
     Gpu("RTX 4060 Ti 8GB", "GeForce RTX 40", "Ada Lovelace", Dec(221, 10), "8GB", 2023),
     Gpu("RTX 4060", "GeForce RTX 40", "Ada Lovelace", Dec(151, 10), "8GB", 2023),
     Gpu("RTX 3090 Ti", "GeForce RTX 30", "Ampere", Dec(40, 1), "24GB", 2022),
     Gpu("RTX 3090", "GeForce RTX 30", "Ampere", Dec(36, 1), "24GB", 2020),
     Gpu("RTX 3080 Ti", "GeForce RTX 30", "Ampere", Dec(341, 10), "12GB", 2021),
     Gpu("RTX 3080 12GB", "GeForce RTX 30", "Ampere", Dec(306, 10), "12GB", 2022),
     Gpu("RTX 3080 10GB", "GeForce RTX 30", "Ampere", Dec(298, 10), "10GB", 2020),
     Gpu("RTX 3070 Ti", "GeForce RTX 30", "Ampere", Dec(217, 10), "8GB", 2021),
     Gpu("RTX 3070", "GeForce RTX 30", "Ampere", Dec(203, 10), "8GB", 2020),
     Gpu("RTX 3060 Ti", "GeForce RTX 30", "Ampere", Dec(162, 10), "8GB", 2020),
     Gpu("RTX 3060 12GB", "GeForce RTX 30", "Ampere", Dec(127, 10), "12GB", 2021),
     Gpu("RTX 3060 8GB", "GeForce RTX 30", "Ampere", Dec(127, 10), "8GB", 2022),
     Gpu("RTX 3050", "GeForce RTX 30", "Ampere", Dec(91, 10), "8GB", 2022),
     Gpu("RTX 2080 Ti", "GeForce RTX 20", "Turing", Dec(134, 10), "11GB", 2018),
     Gpu("RTX 2080 Super", "GeForce RTX 20", "Turing", Dec(111, 10), "8GB", 2019),
     Gpu("RTX 2080", "GeForce RTX 20", "Turing", Dec(101, 10), "8GB", 2018),
     Gpu("RTX 2070 Super", "GeForce RTX 20", "Turing", Dec(91, 10), "8GB", 2019),
     Gpu("RTX 2070", "GeForce RTX 20", "Turing", Dec(79, 10), "8GB", 2018),
     Gpu("RTX 2060 Super", "GeForce RTX 20", "Turing", Dec(72, 10), "8GB", 2019),
     Gpu("RTX 2060", "GeForce RTX 20", "Turing", Dec(65, 10), "6GB", 2019),
     Gpu("GTX 1660 Ti", "GeForce GTX 16", "Turing", Dec(55, 10), "6GB", 2019),
     Gpu("GTX 1660 Super", "GeForce GTX 16", "Turing", Dec(50, 10), "6GB", 2019),
     Gpu("GTX 1660", "GeForce GTX 16", "Turing", Dec(46, 10), "6GB", 2019),
     Gpu("GTX 1650 Super", "GeForce GTX 16", "Turing", Dec(44, 10), "4GB", 2019),
     Gpu("GTX 1650", "GeForce GTX 16", "Turing", Dec(30, 10), "4GB", 2019),
     Gpu("GTX 1080 Ti", "GeForce 10", "Pascal", Dec(113, 10), "11GB", 2017),
     Gpu("GTX 1080", "GeForce 10", "Pascal", Dec(89, 10), "8GB", 2016),
     Gpu("GTX 1070 Ti", "GeForce 10", "Pascal", Dec(82, 10), "8GB", 2017),
     Gpu("GTX 1070", "GeForce 10", "Pascal", Dec(65, 10), "8GB", 2016),
     Gpu("GTX 1060 6GB", "GeForce 10", "Pascal", Dec(44, 10), "6GB", 2016),
     Gpu("GTX 1060 3GB", "GeForce 10", "Pascal", Dec(39, 10), "3GB", 2016),
     Gpu("GTX 1050 Ti", "GeForce 10", "Pascal", Dec(21, 10), "4GB", 2016),
     Gpu("GTX 1050", "GeForce 10", "Pascal", Dec(18, 10), "2GB", 2016),
     Gpu("Quadro RTX 8000", "Quadro RTX", "Turing", Dec(163, 10), "48GB", 2018),
     Gpu("Quadro RTX 6000", "Quadro RTX", "Turing", Dec(163, 10), "24GB", 2018),
     Gpu("Quadro RTX 5000", "Quadro RTX", "Turing", Dec(112, 10), "16GB", 2018),
     Gpu("Quadro RTX 4000", "Quadro RTX", "Turing", Dec(71, 10), "8GB", 2018),
     Gpu("RTX A6000", "Quadro RTX", "Ampere", Dec(387, 10), "48GB", 2020),
     Gpu("RTX A5000", "Quadro RTX", "Ampere", Dec(278, 10), "24GB", 2021),
     Gpu("RTX A4000", "Quadro RTX", "Ampere", Dec(192, 10), "16GB", 2021),
     Gpu("RTX A2000", "Quadro RTX", "Ampere", Dec(8, 1), "6GB", 2021),
     Gpu("RTX 6000 Ada", "Quadro RTX", "Ada Lovelace", Dec(916, 10), "48GB", 2022),
     Gpu("RTX 5000 Ada", "Quadro RTX", "Ada Lovelace", Dec(303, 10), "32GB", 2022),
     Gpu("RTX 4000 Ada", "Quadro RTX", "Ada Lovelace", Dec(247, 10), "20GB", 2023),
     Gpu("RTX 4000 SFF Ada", "Quadro RTX", "Ada Lovelace", Dec(192, 10), "20GB", 2023),
     Gpu("Quadro P6000", "Quadro", "Pascal", Dec(12, 1), "24GB", 2016),
     Gpu("Quadro P5000", "Quadro", "Pascal", Dec(89, 10), "16GB", 2016),
     Gpu("Quadro P4000", "Quadro", "Pascal", Dec(53, 10), "8GB", 2016),
     Gpu("Quadro P2000", "Quadro", "Pascal", Dec(30, 10), "5GB", 2017),
     Gpu("Quadro P1000", "Quadro", "Pascal", Dec(19, 10), "4GB", 2017),
     Gpu("Quadro GV100", "Quadro", "Volta", Dec(148, 10), "32GB", 2018),
     Gpu("Tesla A100 40GB", "Tesla", "Ampere", Dec(195, 10), "40GB", 2020),
     Gpu("Tesla A100 80GB", "Tesla", "Ampere", Dec(195, 10), "80GB", 2020),
     Gpu("Tesla V100 PCIe", "Tesla", "Volta", Dec(157, 10), "32GB", 2017),
     Gpu("Tesla V100 SXM", "Tesla", "Volta", Dec(157, 10), "32GB", 2017),
     Gpu("Tesla P100", "Tesla", "Pascal", Dec(106, 10), "16GB", 2016),
     Gpu("Tesla P40", "Tesla", "Pascal", Dec(12, 1), "24GB", 2016),
     Gpu("Tesla P4", "Tesla", "Pascal", Dec(55, 10), "8GB", 2016),
     Gpu("TITAN RTX", "TITAN", "Turing", Dec(163, 10), "24GB", 2018),
     Gpu("TITAN V", "TITAN", "Volta", Dec(15, 1), "12GB", 2017),
     Gpu("TITAN Xp", "TITAN", "Pascal", Dec(121, 10), "12GB", 2017),
     Gpu("TITAN X (Pascal)", "TITAN", "Pascal", Dec(1097, 100), "12GB", 2016),
     Gpu("GTX 980 Ti", "GeForce 9", "Maxwell", Dec(56, 10), "6GB", 2015),
     Gpu("GTX 980", "GeForce 9", "Maxwell", Dec(46, 10), "4GB", 2014),
     Gpu("GTX 970", "GeForce 9", "Maxwell", Dec(35, 10), "4GB", 2014),
     Gpu("GTX 960", "GeForce 9", "Maxwell", Dec(23, 10), "2GB", 2015),
     Gpu("GTX 950", "GeForce 9", "Maxwell", Dec(18, 10), "2GB", 2015),
     Gpu("Jetson AGX Orin", "Jetson", "Ampere", Dec(53, 10), "32GB", 2022),
     Gpu("Jetson AGX Xavier", "Jetson", "Volta", Dec(14, 10), "32GB", 2018),
     Gpu("Jetson Xavier NX", "Jetson", "Volta", Dec(14, 10), "16GB", 2020) >>

Precision(value, label, multiplier, description) ==
  [value |-> value, label |-> label, multiplier |-> multiplier,
   description |-> description]

precisionTypes ==
  << Precision("fp32", "FP32 (Single Precision)", Dec(1, 1),
               "32-bit floating point (default)"),
     Precision("fp16", "FP16 (Half Precision)", Dec(2, 1),
               "16-bit floating point (~2x faster)"),
     Precision("bf16", "BF16 (BFloat16)", Dec(2, 1),
               "Brain Float 16-bit (~2x faster)"),
     Precision("int8", "INT8 (8-bit Integer)", Dec(4, 1),
               "8-bit integer quantization (~4x faster)"),
     Precision("int4", "INT4 (4-bit Integer)", Dec(8, 1),
               "4-bit integer quantization (~8x faster)"),
     Precision("fp64", "FP64 (Double Precision)", Dec(5, 10),
               "64-bit floating point (~2x slower)") >>

\* an argument that the caller left out
Undefined == [value |-> "undefined"]

\* Array.prototype.find: the first element of arr among those at the indices
\* hits, the ones that satisfy the test, or Null when there is none
Find(arr, hits) ==
  IF hits = {} THEN Null
  ELSE arr[CHOOSE i \in hits : \A j \in hits : i <= j]

(***************************************************************************)
(* The FLOPs engine and the execution-time estimator                       *)
(***************************************************************************)
MatrixDimensions(rows, cols) == [rows |-> rows, cols |-> cols]

\* the precision is ignored
getAdjustedTflops_ignoresPrecision(baseTflops, precision) == baseTflops

\* the multiplier divides where it should multiply
getAdjustedTflops_divides(baseTflops, precision) ==
  NumDiv(baseTflops, precision.multiplier)

getAdjustedTflops(baseTflops, precision) ==
  NumMul(baseTflops, precision.multiplier)

\* as many additions as multiplications
calculateFlops_nAdditions(a, b) ==
  IF a.cols # b.rows THEN Null
  ELSE LET m == a.rows
           n == a.cols
           p == b.cols
           multiplications == m * p * n
           additions == m * p * n
       IN [totalFlops |-> multiplications + additions,
           multiplications |-> multiplications,
           additions |-> additions,
           outputDimensions |-> MatrixDimensions(m, p)]

\* the compatibility test compares the two column counts
calculateFlops_colsWithCols(a, b) ==
  IF a.cols # b.cols THEN Null
  ELSE LET m == a.rows
           n == a.cols
           p == b.cols
           multiplications == m * p * n
           additions == m * p * (n - 1)
       IN [totalFlops |-> multiplications + additions,
           multiplications |-> multiplications,
           additions |-> additions,
           outputDimensions |-> MatrixDimensions(m, p)]

\* a minus typed for the first product sign
calculateFlops_minusTypo(a, b) ==
  IF a.cols # b.rows THEN Null
  ELSE LET m == a.rows
           n == a.cols
           p == b.cols
           multiplications == m - p * n
           additions == m * p * (n - 1)
       IN [totalFlops |-> multiplications + additions,
           multiplications |-> multiplications,
           additions |-> additions,
           outputDimensions |-> MatrixDimensions(m, p)]

calculateFlops(a, b) ==
  IF a.cols # b.rows THEN Null
  ELSE LET m == a.rows
           n == a.cols
           p == b.cols
           outputDimensions == MatrixDimensions(m, p)
           multiplications == m * p * n
           additions == m * p * (n - 1)
           totalFlops == multiplications + additions
       IN [totalFlops |-> totalFlops,
           multiplications |-> multiplications,
           additions |-> additions,
           outputDimensions |-> outputDimensions]

Formatted(num, unit) == [num |-> num, unit |-> unit]

\* the unit is microseconds wherever milliseconds were meant to be tried first
FormatExecutionTime_usBeforeMs(seconds, milliseconds, microseconds, nanoseconds) ==
  IF NumGE(seconds, One) THEN Formatted(toFixed(seconds, 6), "s")
  ELSE IF NumGE(microseconds, One)
    THEN Formatted(toFixed(microseconds, 6), "us")
  ELSE IF NumGE(milliseconds, One)
    THEN Formatted(toFixed(milliseconds, 6), "ms")
  ELSE Formatted(toFixed(nanoseconds, 3), "ns")

\* nanoseconds printed with 6 decimals like the other units
FormatExecutionTime_ns6(seconds, milliseconds, microseconds, nanoseconds) ==
  IF NumGE(seconds, One) THEN Formatted(toFixed(seconds, 6), "s")
  ELSE IF NumGE(milliseconds, One)
    THEN Formatted(toFixed(milliseconds, 6), "ms")
  ELSE IF NumGE(microseconds, One)
    THEN Formatted(toFixed(microseconds, 6), "us")
  ELSE Formatted(toFixed(nanoseconds, 6), "ns")

\* the unit selection: "us" stands for the code's micro sign followed by s
FormatExecutionTime(seconds, milliseconds, microseconds, nanoseconds) ==
  IF NumGE(seconds, One) THEN Formatted(toFixed(seconds, 6), "s")
  ELSE IF NumGE(milliseconds, One)
    THEN Formatted(toFixed(milliseconds, 6), "ms")
  ELSE IF NumGE(microseconds, One)
    THEN Formatted(toFixed(microseconds, 6), "us")
  ELSE Formatted(toFixed(nanoseconds, 3), "ns")

\* microseconds derived from seconds with the factor of milliseconds
calculateExecutionTime_usFromSeconds(totalFlops, gpuTflops, precisionArg) ==
  LET precision == IF precisionArg = Undefined THEN precisionTable[1]
                   ELSE precisionArg
      adjustedTflops == getAdjustedTflops(gpuTflops, precision)
      seconds == NumDiv(totalFlops, NumMul(adjustedTflops, Sci(1, 12)))
      milliseconds == NumMul(seconds, Sci(1, 3))
      microseconds == NumMul(seconds, Sci(1, 3))
      nanoseconds == NumMul(microseconds, Sci(1, 3))
  IN [seconds |-> seconds,
      milliseconds |-> milliseconds,
      microseconds |-> microseconds,
      nanoseconds |-> nanoseconds,
      formatted |-> FormatExecutionTime(seconds, milliseconds, microseconds,
                                        nanoseconds)]

calculateExecutionTime(totalFlops, gpuTflops, precisionArg) ==
  LET precision == IF precisionArg = Undefined THEN precisionTable[1]
                   ELSE precisionArg
      adjustedTflops == getAdjustedTflops(gpuTflops, precision)
      seconds == NumDiv(totalFlops, NumMul(adjustedTflops, Sci(1, 12)))
      milliseconds == NumMul(seconds, Sci(1, 3))
      microseconds == NumMul(milliseconds, Sci(1, 3))
      nanoseconds == NumMul(microseconds, Sci(1, 3))
  IN [seconds |-> seconds,
      milliseconds |-> milliseconds,
      microseconds |-> microseconds,
      nanoseconds |-> nanoseconds,
      formatted |-> FormatExecutionTime(seconds, milliseconds, microseconds,
                                        nanoseconds)]

(***************************************************************************)
(* getGpusBySeries and findGpuByName                                       *)
(***************************************************************************)
\* x - y for finite x and y
NumSub(x, y) ==
  LET lo == IF x.e < y.e THEN x.e ELSE y.e
  IN Fin(x.n * y.d * Pow10(x.e - lo) - y.n * x.d * Pow10(y.e - lo),
         x.d * y.d, lo)

\* the operands of the subtraction exchanged: ascending order
CompareTflops_ascending(a, b) == Sgn(NumSub(a.tflops, b.tflops).n)

\* the comparator (a, b) => b.tflops - a.tflops, reduced to its sign
CompareTflops(a, b) == Sgn(NumSub(b.tflops, a.tflops).n)

\* Array.prototype.sort with that comparator: a stable sort, so the element
\* at index i lands behind every element the comparator puts before it and
\* behind the equal ones that stood before it
SortRank(arr, i) ==
  1 + Cardinality({j \in 1..Len(arr) :
                     \/ CompareTflops(arr[j], arr[i]) < 0
                     \/ (CompareTflops(arr[j], arr[i]) = 0 /\ j < i)})

SortByTflops(arr) ==
  [r \in 1..Len(arr) |->
     arr[CHOOSE i \in 1..Len(arr) : SortRank(arr, i) = r]]

\* the forEach with grouped[gpu.series].push(gpu): a Record<string,
\* NvidiaGpu[]> is a sequence of [series, gpus] entries, its keys in the order
\* of their first insertion, each array in the order of the pushes
\* grouped[gpu.series] = [] on every device: a group keeps only its last one
GroupBySeries_lastOnly(gpus) ==
  LET firsts == {i \in 1..Len(gpus) :
                   \A j \in 1..(i - 1) : gpus[j].series # gpus[i].series}
      KeyAt(k) == CHOOSE i \in firsts :
                    Cardinality({j \in firsts : j <= i}) = k
      Last(series) ==
        CHOOSE i \in 1..Len(gpus) :
          /\ gpus[i].series = series
          /\ \A j \in (i + 1)..Len(gpus) : gpus[j].series # series
  IN [k \in 1..Cardinality(firsts) |->
        [series |-> gpus[KeyAt(k)].series,
         gpus |-> <<gpus[Last(gpus[KeyAt(k)].series)]>>]]

GroupBySeries(gpus) ==
  LET firsts == {i \in 1..Len(gpus) :
                   \A j \in 1..(i - 1) : gpus[j].series # gpus[i].series}
      KeyAt(k) == CHOOSE i \in firsts :
                    Cardinality({j \in firsts : j <= i}) = k
      Pushed(series) ==
        LET idx == {i \in 1..Len(gpus) : gpus[i].series = series}
        IN [r \in 1..Cardinality(idx) |->
              gpus[CHOOSE i \in idx : Cardinality({j \in idx : j <= i}) = r]]
  IN [k \in 1..Cardinality(firsts) |->
        [series |-> gpus[KeyAt(k)].series,
         gpus |-> Pushed(gpus[KeyAt(k)].series)]]

getGpusBySeries(gpus) ==
  LET grouped == GroupBySeries(gpus)
  IN [g \in 1..Len(grouped) |->
        [grouped[g] EXCEPT !.gpus = SortByTflops(@)]]

\* the catalog itself sorted in place before it is grouped
CatalogAfterGetGpusBySeries_sortsCatalog(gpus) == SortByTflops(gpus)

\* what getGpusBySeries leaves in the array of nvidiaGpus: it only reads it,
\* the arrays it sorts in place are the group arrays it has just built
CatalogAfterGetGpusBySeries(gpus) == gpus

findGpuByName(gpus, name) ==
  Find(gpus, {i \in 1..Len(gpus) : gpus[i].name = name})

(***************************************************************************)
(* parseInt on the text of an input field, a sequence of characters        *)
(***************************************************************************)
Digits == <<"0", "1", "2", "3", "4", "5", "6", "7", "8", "9">>
IsDigit(c) == \E i \in 1..10 : Digits[i] = c
DigitVal(c) == (CHOOSE i \in 1..10 : Digits[i] = c) - 1

RECURSIVE StripLeft(_)
StripLeft(s) ==
  IF s # <<>> /\ Head(s) = " " THEN StripLeft(Tail(s)) ELSE s

\* the value and the length of the longest prefix of s made of digits
RECURSIVE DigitsPrefix(_, _, _)
DigitsPrefix(s, acc, len) ==
  IF s # <<>> /\ IsDigit(Head(s))
    THEN DigitsPrefix(Tail(s), acc * 10 + DigitVal(Head(s)), len + 1)
  ELSE [value |-> acc, len |-> len]

\* parseInt(text): [isNaN |-> TRUE] when no digit follows the optional sign
parseInt(text) ==
  LET s == StripLeft(text)
      signed == s # <<>> /\ Head(s) \in {"-", "+"}
      p == DigitsPrefix(IF signed THEN Tail(s) ELSE s, 0, 0)
  IN IF p.len = 0 THEN [isNaN |-> TRUE, value |-> 0]
     ELSE [isNaN |-> FALSE,
           value |-> IF signed /\ Head(s) = "-" THEN 0 - p.value ELSE p.value]

\* parseInt(e.target.value) || 1: NaN and 0 are falsy
ParseIntOr1(text) ==
  LET v == parseInt(text)
  IN IF v.isNaN \/ v.value = 0 THEN 1 ELSE v.value

(***************************************************************************)
(* DistributedOperations: state, what a render derives from it              *)
(***************************************************************************)
Operation(name, visualization) ==
  [name |-> name, visualization |-> visualization]

\* the description and useCase texts of the entries are left out
operations ==
  << Operation("All-Reduce", "all-reduce"),
     Operation("All-Gather", "all-gather"),
     Operation("Gather", "gather"),
     Operation("Scatter", "scatter"),
     Operation("Broadcast", "broadcast"),
     Operation("Reduce", "reduce") >>

numProcesses == 4
cellsPerStep == 3

\* Array.from({ length: numProcesses }, (_, i) => ({ id: i, ... })); the
\* matrix of a process is left out, no step depends on its values
processes == [i \in 1..numProcesses |-> [id |-> i - 1]]

Ceil(a, b) == (a + b - 1) \div b

\* AllReduce, Gather, Scatter and Reduce: processes.length * 9
totalCells == Len(processes) * 9

\* the step count of AllReduceVisualization used by every visualization
TimerLimit_stepsOfThree(visualization) ==
  Ceil(totalCells, cellsPerStep) * 2

\* the bound that the timer effect of each visualization tests currentStep
\* against before it schedules the next tick
TimerLimit(visualization) ==
  CASE visualization = "all-reduce" -> Ceil(totalCells, cellsPerStep) * 2
    [] visualization = "all-gather" -> Len(processes) * Len(processes) * 9
    [] visualization = "broadcast" -> (Len(processes) - 1) * 9
    [] OTHER -> totalCells

NoTimer == [kind |-> "none"]

\* the test written as currentStep <= limit
ScheduledTimer_inclusive(visualization, playing, step) ==
  IF playing /\ step <= TimerLimit(visualization)
  THEN [step |-> step]
  ELSE NoTimer

\* the effect of a visualization after a render with these props: the timer
\* of the previous render is cleared, a new one is set while playing below
\* the limit; its callback holds the currentStep of that render
ScheduledTimer(visualization, playing, step) ==
  IF playing /\ step < TimerLimit(visualization)
  THEN [step |-> step]
  ELSE NoTimer

\* the ends of a link: a process id or 'center'
Node(id) == [node |-> "gpu", id |-> id]
center == [node |-> "center"]
Connection(from, to, active) == [from |-> from, to |-> to, active |-> active]

\* NVLinkConnections updateConnections, case 'all-reduce'
AllReduceConnections(playing, step) ==
  IF step < Len(processes) * 9
  THEN [i \in 1..Len(processes) |->
          Connection(Node(processes[i].id), center,
                     playing /\ step >= processes[i].id * 3)]
  ELSE LET receiveStep == step - Len(processes) * 9
       IN [i \in 1..Len(processes) |->
             Connection(center, Node(processes[i].id),
                        playing /\ receiveStep >= processes[i].id * 3)]

\* the pairs (from, to) of processes in the order of the two nested forEach
ProcessPairs ==
  [k \in 1..(Len(processes) * Len(processes)) |->
     [from |-> processes[((k - 1) \div Len(processes)) + 1],
      to |-> processes[((k - 1) % Len(processes)) + 1]]]

\* NVLinkConnections updateConnections: what the effect stores in
\* connectionsRef.current
updateConnections(operation, playing, step) ==
  LET NotSelf(pair) == pair.from.id # pair.to.id
      NotRoot(p) == p.id # 0
      others == SelectSeq(ProcessPairs, NotSelf)
      senders == SelectSeq(processes, NotRoot)
  IN CASE operation = "all-reduce" -> AllReduceConnections(playing, step)
       [] operation = "all-gather" ->
            [k \in 1..Len(others) |->
               Connection(Node(others[k].from.id), Node(others[k].to.id),
                          playing /\ step >= (others[k].from.id * Len(processes)
                                               + others[k].to.id) * 3)]
       [] operation \in {"gather", "reduce"} ->
            [k \in 1..Len(senders) |->
               Connection(Node(senders[k].id), Node(0),
                          playing /\ step >= senders[k].id * 3)]
       [] operation = "scatter" ->
            [k \in 1..Len(processes) |->
               Connection(Node(0), Node(processes[k].id),
                          playing /\ step >= processes[k].id * 3)]
       [] operation = "broadcast" ->
            [k \in 1..Len(Tail(processes)) |->
               Connection(Node(0), Node(Tail(processes)[k].id),
                          playing /\ step >= (Tail(processes)[k].id - 1) * 3)]

Link(from, to) == [from |-> from, to |-> to]

\* NVLinkConnections allConnections: the lines that a render draws
allConnections(operation) ==
  LET NotSelf(pair) == pair.from.id # pair.to.id
      NotRoot(p) == p.id # 0
      others == SelectSeq(ProcessPairs, NotSelf)
      senders == SelectSeq(processes, NotRoot)
  IN CASE operation = "all-reduce" ->
            [k \in 1..(2 * Len(processes)) |->
               IF k % 2 = 1
               THEN Link(Node(processes[(k + 1) \div 2].id), center)
               ELSE Link(center, Node(processes[k \div 2].id))]
       [] operation = "all-gather" ->
            [k \in 1..Len(others) |->
               Link(Node(others[k].from.id), Node(others[k].to.id))]
       [] operation \in {"gather", "reduce"} ->
            [k \in 1..Len(senders) |-> Link(Node(senders[k].id), Node(0))]
       [] operation = "scatter" ->
            [k \in 1..Len(processes) |-> Link(Node(0), Node(processes[k].id))]
       [] operation = "broadcast" ->
            [k \in 1..Len(Tail(processes)) |->
               Link(Node(0), Node(Tail(processes)[k].id))]

\* connectionsRef.current.find(...)?.active: the flag of the first stored
\* connection between these ends, false when there is none
ConnectionActive(connections, from, to) ==
  LET hits == {i \in 1..Len(connections) :
                 connections[i].from = from /\ connections[i].to = to}
  IN IF hits = {} THEN FALSE
     ELSE connections[CHOOSE i \in hits : \A j \in hits : i <= j].active

\* the lines of a render of a mounted NVLinkConnections: each line of
\* allConnections with the flag that connectionsRef.current holds for it
\* while the component renders
DrawnLinks(operation, connections) ==
  [k \in 1..Len(allConnections(operation)) |->
     Connection(allConnections(operation)[k].from,
                allConnections(operation)[k].to,
                ConnectionActive(connections,
                                 allConnections(operation)[k].from,
                                 allConnections(operation)[k].to))]

\* the centre SUM matrix: getCellState of the reduction centre
CentreIsActive == currentStep >= totalCells /\ isPlaying

\* AnimatedCellFlow getActiveCells, direction 'all-reduce' (the value of a
\* cell is left out); the component is rendered only while isPlaying
AllReduceActiveCells(step) ==
  IF step < totalCells
  THEN { [sourceId |-> Node(processes[i].id), targetId |-> center,
          cellIndex |-> idx] :
           <<i, idx>> \in { <<i0, idx0>> \in (1..Len(processes)) \X (0..8) :
              /\ processes[i0].id * 9 + idx0 < step
              /\ processes[i0].id * 9 + idx0 >= step - 3 } }
  ELSE LET receiveStep == step - totalCells
       IN { [sourceId |-> center, targetId |-> Node(processes[i].id),
             cellIndex |-> idx] :
              <<i, idx>> \in { <<i0, idx0>> \in (1..Len(processes)) \X (0..8) :
                 /\ processes[i0].id * 9 + idx0 < receiveStep
                 /\ processes[i0].id * 9 + idx0 >= receiveStep - 3 } }

\* the destinations that a visualization reveals, each with the step from
\* which it is shown (opacity 1, or an active cell of the Reduce result):
\* AllGather one chunk per target and source, Gather one chunk per process at
\* the root, Scatter one matrix per process, Broadcast one per process after
\* the root, Reduce the nine cells of the result
Destinations(visualization) ==
  CASE visualization = "all-gather" ->
         { [target |-> processes[t].id, index |-> sourceIdx - 1,
            threshold |-> (processes[t].id * Len(processes) + (sourceIdx - 1)) * 9] :
             t \in 1..Len(processes), sourceIdx \in 1..Len(processes) }
    [] visualization = "gather" ->
         { [target |-> 0, index |-> idx - 1, threshold |-> (idx - 1) * 9] :
             idx \in 1..Len(processes) }
    [] visualization = "scatter" ->
         { [target |-> processes[idx].id, index |-> idx - 1,
            threshold |-> (idx - 1) * 9] : idx \in 1..Len(processes) }
    [] visualization = "broadcast" ->
         { [target |-> Tail(processes)[idx].id, index |-> idx - 1,
            threshold |-> (idx - 1) * 9] : idx \in 1..Len(Tail(processes)) }
    [] visualization = "reduce" ->
         { [target |-> 0, index |-> row * 3 + col,
            threshold |-> totalCells - 9 + (row * 3 + col)] :
             row \in 0..2, col \in 0..2 }
    [] OTHER -> {}

\* isPlaying && currentStep >= threshold
Revealed(destination) == isPlaying /\ currentStep >= destination.threshold

\* the width of the step progress bar in percent: (currentStep / 50) * 100
progressWidth == NumMul(NumDiv(Int2Num(currentStep), Int2Num(50)), Int2Num(100))

AnimInit ==
  /\ selectedOperation = operations[1]
  /\ animationKey = 0
  /\ currentStep = 0
  /\ isPlaying = FALSE
  /\ completedCells = {}
  /\ showExplanation = TRUE
  /\ timer = NoTimer
  /\ lastInput = "none"
  /\ connectionsRef = updateConnections(selectedOperation.visualization,
                                        isPlaying, currentStep)
  /\ shownLinks = <<>>

(***************************************************************************)
(* MatrixFlopsCalculator: state, what a render derives from it, handlers   *)
(***************************************************************************)
\* texts that an edit can leave in a dimension field
TypedTexts ==
  { <<>>, <<"0">>, <<"-", "3">>, <<"2", ".", "5">>, <<"a", "b", "c">>,
    <<"4">>, <<" ", "3">> }

\* values that the GPU dropdown and the precision dropdown can hand over
GpuValues == {"H100 PCIe", "A100 PCIe 40GB", "no such gpu"}
PrecisionValues ==
  {"fp32", "fp16", "bf16", "int8", "int4", "fp64", "no such precision"}

gpusBySeries == getGpusBySeries(gpuCatalog)

\* the options of the GPU dropdown: one per device of every group, in the
\* order of Object.entries; the label text is left out
gpuOptions(grouped) ==
  LET slots == { <<g, i>> \in (1..Len(grouped)) \X (1..Len(gpuCatalog)) :
                   i <= Len(grouped[g].gpus) }
      Position(g, i) ==
        Cardinality({ s \in slots : s[1] < g \/ (s[1] = g /\ s[2] <= i) })
      SlotAt(k) == CHOOSE s \in slots : Position(s[1], s[2]) = k
      OptionAt(s) == [value |-> grouped[s[1]].gpus[s[2]].name,
                      group |-> grouped[s[1]].series]
  IN [k \in 1..Cardinality(slots) |-> OptionAt(SlotAt(k))]
result == calculateFlops(matrixA, matrixB)
isValid == result # Null
\* the time computed with the precision of the first render
executionTime_firstPrecision ==
  IF result # Null /\ selectedGpu # Null
    THEN calculateExecutionTime(Int2Num(result.totalFlops), selectedGpu.tflops,
                                precisionTypes[1])
  ELSE Null

executionTime ==
  IF result # Null /\ selectedGpu # Null
    THEN calculateExecutionTime(Int2Num(result.totalFlops), selectedGpu.tflops,
                                selectedPrecision)
  ELSE Null

NoCall == [fn |-> "none"]
NoRet == [kind |-> "pending"]

CalcInit ==
  /\ matrixA = MatrixDimensions(3, 4)
  /\ matrixB = MatrixDimensions(4, 5)
  /\ selectedGpu = nvidiaGpus[1]
  /\ selectedPrecision = precisionTypes[1]

\* an entry of the GPU table with a throughput of 0
CatalogInit_zeroTflops ==
  /\ gpuCatalog = [nvidiaGpus EXCEPT ![3].tflops = Dec(0, 1)]
  /\ precisionTable = precisionTypes

\* two entries of the GPU table under one name
CatalogInit_duplicateName ==
  /\ gpuCatalog = [nvidiaGpus EXCEPT ![2].name = "H100 PCIe"]
  /\ precisionTable = precisionTypes

\* FP64 entered as twice as fast instead of half as fast
CatalogInit_fp64Doubles ==
  /\ gpuCatalog = nvidiaGpus
  /\ precisionTable = [precisionTypes EXCEPT ![6].multiplier = Dec(2, 1)]

\* module load: the two tables hold their literals
CatalogInit ==
  /\ gpuCatalog = nvidiaGpus
  /\ precisionTable = precisionTypes

\* a render calls getGpusBySeries, calculateFlops and calculateExecutionTime;
\* this is what it leaves in the tables
Render ==
  /\ gpuCatalog' = CatalogAfterGetGpusBySeries(gpuCatalog)
  /\ precisionTable' = precisionTable

Init ==
  /\ CalcInit
  /\ AnimInit
  /\ CatalogInit
  /\ call = NoCall
  /\ ret = NoRet

OnChangeARows(text) ==
  /\ matrixA' = [matrixA EXCEPT !.rows = ParseIntOr1(text)]
  /\ Render
  /\ UNCHANGED <<matrixB, selectedGpu, selectedPrecision, fnVars, animVars>>

OnChangeACols(text) ==
  /\ matrixA' = [matrixA EXCEPT !.cols = ParseIntOr1(text)]
  /\ Render
  /\ UNCHANGED <<matrixB, selectedGpu, selectedPrecision, fnVars, animVars>>

OnChangeBRows(text) ==
  /\ matrixB' = [matrixB EXCEPT !.rows = ParseIntOr1(text)]
  /\ Render
  /\ UNCHANGED <<matrixA, selectedGpu, selectedPrecision, fnVars, animVars>>

OnChangeBCols(text) ==
  /\ matrixB' = [matrixB EXCEPT !.cols = ParseIntOr1(text)]
  /\ Render
  /\ UNCHANGED <<matrixA, selectedGpu, selectedPrecision, fnVars, animVars>>

OnChangeGpu(value) ==
  /\ selectedGpu' = Find(gpuCatalog,
                        {i \in 1..Len(gpuCatalog) : gpuCatalog[i].name = value})
  /\ Render
  /\ UNCHANGED <<matrixA, matrixB, selectedPrecision, fnVars, animVars>>

\* the guard on the lookup left out
OnChangePrecision_unguarded(value) ==
  LET precision == Find(precisionTable,
           {i \in 1..Len(precisionTable) : precisionTable[i].value = value})
  IN /\ selectedPrecision' = precision
     /\ Render
     /\ UNCHANGED <<matrixA, matrixB, selectedGpu, fnVars, animVars>>

OnChangePrecision(value) ==
  LET precision == Find(precisionTable,
           {i \in 1..Len(precisionTable) : precisionTable[i].value = value})
  IN /\ selectedPrecision' =
          IF precision # Null THEN precision ELSE selectedPrecision
     /\ Render
     /\ UNCHANGED <<matrixA, matrixB, selectedGpu, fnVars, animVars>>

Next ==
  \/ \E text \in TypedTexts : OnChangeARows(text)
  \/ \E text \in TypedTexts : OnChangeACols(text)
  \/ \E text \in TypedTexts : OnChangeBRows(text)
  \/ \E text \in TypedTexts : OnChangeBCols(text)
  \/ \E value \in GpuValues : OnChangeGpu(value)
  \/ \E value \in PrecisionValues : OnChangePrecision(value)

Spec == Init /\ [][Next]_vars

(***************************************************************************)
(* MaterialSelect: the option list that a render derives from the options  *)
(* and the search term.  A string is a sequence of characters.             *)
(***************************************************************************)
UpperCase ==
  << "A", "B", "C", "D", "E", "F", "G", "H", "I", "J", "K", "L", "M",
     "N", "O", "P", "Q", "R", "S", "T", "U", "V", "W", "X", "Y", "Z" >>
LowerCase ==
  << "a", "b", "c", "d", "e", "f", "g", "h", "i", "j", "k", "l", "m",
     "n", "o", "p", "q", "r", "s", "t", "u", "v", "w", "x", "y", "z" >>

\* String.prototype.toLowerCase on the letters A to Z
toLowerCase(str) ==
  [i \in 1..Len(str) |->
     IF \E k \in 1..Len(UpperCase) : UpperCase[k] = str[i]
     THEN LowerCase[CHOOSE k \in 1..Len(UpperCase) : UpperCase[k] = str[i]]
     ELSE str[i]]

\* only a match at the start of the string
includes_startsWith(str, search) ==
  /\ Len(search) <= Len(str)
  /\ SubSeq(str, 1, Len(search)) = search

\* String.prototype.includes
includes(str, search) ==
  \E start \in 1..(Len(str) - Len(search) + 1) :
    SubSeq(str, start, start + Len(search) - 1) = search

\* { value, label, group? }: an option without a group has no group field
SelectOption(value, label) == [value |-> value, label |-> label]
GroupedOption(value, label, group) ==
  [value |-> value, label |-> label, group |-> group]
HasGroup(option) == "group" \in DOMAIN option

\* the callback of options.filter; option.group && ... is falsy for a
\* missing and for an empty group
OptionMatches(option, searchTerm) ==
  \/ includes(toLowerCase(option.label), toLowerCase(searchTerm))
  \/ includes(toLowerCase(option.value), toLowerCase(searchTerm))
  \/ /\ HasGroup(option)
     /\ option.group # <<>>
     /\ includes(toLowerCase(option.group), toLowerCase(searchTerm))

filteredOptions(options, searchTerm) ==
  LET Test(option) == OptionMatches(option, searchTerm)
  IN SelectSeq(options, Test)

Other == <<"O", "t", "h", "e", "r">>

\* option.group || 'Other'
GroupOf(option) ==
  IF HasGroup(option) /\ option.group # <<>> THEN option.group ELSE Other

\* the reduce over filteredOptions: the groups in the order of their first
\* option, each with its options in list order
groupedOptions(filtered) ==
  LET firsts == {i \in 1..Len(filtered) :
                   \A j \in 1..(i - 1) : GroupOf(filtered[j]) # GroupOf(filtered[i])}
      KeyAt(k) == CHOOSE i \in firsts :
                    Cardinality({j \in firsts : j <= i}) = k
      Pushed(group) ==
        LET Test(option) == GroupOf(option) = group
        IN SelectSeq(filtered, Test)
  IN [k \in 1..Cardinality(firsts) |->
        [group |-> GroupOf(filtered[KeyAt(k)]),
         options |-> Pushed(GroupOf(filtered[KeyAt(k)]))]]

\* what the open dropdown draws below the search field: the text
\* 'No options found', or the options of every group
OptionsList(options, searchTerm) ==
  LET grouped == groupedOptions(filteredOptions(options, searchTerm))
  IN [noOptionsFound |-> Len(grouped) = 0,
      groups |-> grouped]

(***************************************************************************)
(* The pure functions called directly, on arguments of any sign            *)
(***************************************************************************)
MaxDim == 5
NegDim == 2
DimRange == (0 - NegDim)..MaxDim

FlopsCalls ==
  { [fn |-> "calculateFlops", a |-> MatrixDimensions(ar, ac),
     b |-> MatrixDimensions(br, bc)] :
      ar \in DimRange, ac \in DimRange, br \in DimRange, bc \in DimRange }

\* operation counts from 1 FLOP to 1.95 * 10^14, zero, and a negative one
FlopsMantissas == {0, 1, 105, 195}
FlopsExponents == {0, 3, 6, 9, 11, 12}
SmallExponents == {0, 3}
PositiveTflops == {Dec(195, 10), Dec(67, 1), Dec(1000, 1), Dec(1097, 100)}
OtherTflops == {Dec(0, 1), Dec(0 - 195, 10)}
PrecisionArgs == {precisionTypes[i] : i \in 1..Len(precisionTypes)} \cup {Undefined}

TimeCalls ==
  { [fn |-> "calculateExecutionTime", totalFlops |-> Sci(n, e),
     gpuTflops |-> t, precision |-> p] :
      n \in FlopsMantissas, e \in FlopsExponents, t \in PositiveTflops,
      p \in PrecisionArgs }
  \cup
  { [fn |-> "calculateExecutionTime", totalFlops |-> Sci(n, e),
     gpuTflops |-> t, precision |-> p] :
      n \in FlopsMantissas \cup {0 - 60}, e \in SmallExponents,
      t \in PositiveTflops \cup OtherTflops, p \in PrecisionArgs }

\* getGpusBySeries(), and findGpuByName on every name of the catalog and on
\* names that are not in it
GroupCalls == { [fn |-> "getGpusBySeries"] }
FindCalls ==
  { [fn |-> "findGpuByName", name |-> n] :
      n \in {nvidiaGpus[i].name : i \in 1..Len(nvidiaGpus)}
             \cup {"no such gpu", ""} }

\* the dropdown on samples of the two option lists of the calculator (GPU
\* options carry their series as group, precision options have no group),
\* on a list with an empty group, and on the empty list
GpuOptionsSample ==
  << GroupedOption(<<"H", "1", "0", "0", " ", "P", "C", "I", "e">>,
       <<"H", "1", "0", "0", " ", "P", "C", "I", "e", " ", "(", "6", "7", " ",
         "T", "F", "L", "O", "P", "S", ",", " ", "8", "0", "G", "B", ")">>,
       <<"H", "o", "p", "p", "e", "r">>),
     GroupedOption(<<"H", "1", "0", "0", " ", "S", "X", "M">>,
       <<"H", "1", "0", "0", " ", "S", "X", "M", " ", "(", "6", "7", " ", "T",
         "F", "L", "O", "P", "S", ",", " ", "8", "0", "G", "B", ")">>,
       <<"H", "o", "p", "p", "e", "r">>),
     GroupedOption(<<"A", "1", "0", "0", " ", "P", "C", "I", "e", " ", "4", "0", "G", "B">>,
       <<"A", "1", "0", "0", " ", "P", "C", "I", "e", " ", "4", "0", "G", "B",
         " ", "(", "1", "9", ".", "5", " ", "T", "F", "L", "O", "P", "S",
         ",", " ", "4", "0", "G", "B", ")">>,
       <<"A", "m", "p", "e", "r", "e">>) >>
PrecisionOptionsSample ==
  << SelectOption(<<"f", "p", "3", "2">>,
       <<"F", "P", "3", "2", " ", "(", "S", "i", "n", "g", "l", "e", " ", "P",
         "r", "e", "c", "i", "s", "i", "o", "n", ")">>),
     SelectOption(<<"f", "p", "1", "6">>,
       <<"F", "P", "1", "6", " ", "(", "H", "a", "l", "f", " ", "P", "r", "e",
         "c", "i", "s", "i", "o", "n", ")">>),
     SelectOption(<<"i", "n", "t", "8">>,
       <<"I", "N", "T", "8", " ", "(", "8", "-", "b", "i", "t", " ", "I", "n",
         "t", "e", "g", "e", "r", ")">>) >>
MixedOptionsSample ==
  << GroupedOption(<<"a", "1">>, <<"A", "l", "p", "h", "a">>, <<>>),
     GroupedOption(<<"b", "2">>, <<"B", "e", "t", "a">>, <<"O", "t", "h", "e", "r">>),
     SelectOption(<<"c", "3">>, <<"G", "a", "m", "m", "a">>) >>
OptionLists ==
  {GpuOptionsSample, PrecisionOptionsSample, MixedOptionsSample, <<>>}
SearchTerms ==
  { <<>>,
    <<"h", "1", "0", "0">>,
    <<"H", "O", "P">>,
    <<"p", "c", "i", "e">>,
    <<"f", "p">>,
    <<"F", "P", "1", "6">>,
    <<"x">>,
    <<"t", "f", "l", "o", "p", "s">>,
    <<"o", "t", "h", "e", "r">>,
    <<"4", "0", "g", "b">>,
    <<"A", "m", "p", "e", "r", "e">>,
    <<"i", "n", "t">>,
    <<"(">>,
    <<" ">>,
    <<"a">>,
    <<"1">>,
    <<"s", "x", "m", " ">>,
    <<"H", "1", "0", "0", " ", "P", "C", "I", "e", " ", "(", "6", "7", " ",
       "T", "F", "L", "O", "P", "S", ",", " ", "8", "0", "G", "B", ")">>,
    <<"g", "a", "m", "m", "a">>,
    <<"2">> }
SelectCalls ==
  { [fn |-> "filteredOptions", options |-> os, searchTerm |-> st] :
      os \in OptionLists, st \in SearchTerms }

EngineInit ==
  /\ CalcInit
  /\ AnimInit
  /\ CatalogInit
  /\ call \in FlopsCalls \cup TimeCalls \cup GroupCalls \cup FindCalls
              \cup SelectCalls
  /\ ret = NoRet

CallCalculateFlops ==
  /\ call.fn = "calculateFlops"
  /\ ret = NoRet
  /\ ret' = calculateFlops(call.a, call.b)
  /\ UNCHANGED <<call, calcVars, catVars, animVars>>

CallCalculateExecutionTime ==
  /\ call.fn = "calculateExecutionTime"
  /\ ret = NoRet
  /\ ret' = calculateExecutionTime(call.totalFlops, call.gpuTflops,
                                   call.precision)
  /\ UNCHANGED <<call, calcVars, catVars, animVars>>

CallGetGpusBySeries ==
  /\ call.fn = "getGpusBySeries"
  /\ ret = NoRet
  /\ ret' = getGpusBySeries(gpuCatalog)
  /\ gpuCatalog' = CatalogAfterGetGpusBySeries(gpuCatalog)
  /\ UNCHANGED <<call, calcVars, precisionTable, animVars>>

CallFindGpuByName ==
  /\ call.fn = "findGpuByName"
  /\ ret = NoRet
  /\ ret' = findGpuByName(gpuCatalog, call.name)
  /\ UNCHANGED <<call, calcVars, catVars, animVars>>

\* a render of MaterialSelect with the dropdown open
CallFilteredOptions ==
  /\ call.fn = "filteredOptions"
  /\ ret = NoRet
  /\ ret' = OptionsList(call.options, call.searchTerm)
  /\ UNCHANGED <<call, calcVars, catVars, animVars>>

EngineNext ==
  \/ CallCalculateFlops
  \/ CallCalculateExecutionTime
  \/ CallGetGpusBySeries
  \/ CallFindGpuByName
  \/ CallFilteredOptions

SpecEngine == EngineInit /\ [][EngineNext]_vars

(***************************************************************************)
(* DistributedOperations: the handlers and the timer.  A step is a handler *)
(* together with the render it causes and the effects of that render: the  *)
(* cleanup of the previous timer and the scheduling of the next one.       *)
(***************************************************************************)
MaxStep == 60
MaxKey == 2

\* the effect without its cleanup: a timer that was set stays set until the
\* next one replaces it
Rerender_noCleanup ==
  timer' = IF ScheduledTimer(selectedOperation'.visualization, isPlaying',
                             currentStep') # NoTimer
           THEN ScheduledTimer(selectedOperation'.visualization, isPlaying',
                               currentStep')
           ELSE timer

\* the cleanup and the effect of the visualization after the render; React 18
\* runs both before the click handler's task ends, so no callback of an
\* earlier timer can run in between
Rerender ==
  timer' = ScheduledTimer(selectedOperation'.visualization, isPlaying',
                          currentStep')

\* the visualizations that hold an NVLinkConnections
HasLinks(visualization) ==
  visualization \in {"all-reduce", "scatter", "broadcast"}

\* a render of the NVLinkConnections that is mounted: it reads
\* connectionsRef.current, which the effect of the previous render stored;
\* then the effect of this render stores the connections of its props
RenderLinks ==
  IF HasLinks(selectedOperation'.visualization)
  THEN /\ shownLinks' = DrawnLinks(selectedOperation'.visualization,
                                   connectionsRef)
       /\ connectionsRef' = updateConnections(selectedOperation'.visualization,
                                              isPlaying', currentStep')
  ELSE UNCHANGED <<shownLinks, connectionsRef>>

\* the first render of a new NVLinkConnections: containerRef.current is
\* null, getConnectionLine returns null and no line is drawn; then its effect
MountLinks ==
  /\ shownLinks' = <<>>
  /\ connectionsRef' =
       IF HasLinks(selectedOperation'.visualization)
       THEN updateConnections(selectedOperation'.visualization, isPlaying',
                              currentStep')
       ELSE <<>>

handleOperationSelect(operation) ==
  /\ animationKey < MaxKey
  /\ selectedOperation' = operation
  /\ animationKey' = animationKey + 1
  /\ currentStep' = 0
  /\ isPlaying' = FALSE
  /\ completedCells' = {}
  /\ showExplanation' = TRUE
  /\ lastInput' = "select"
  /\ UNCHANGED <<calcVars, catVars, fnVars>>
  /\ Rerender
  /\ MountLinks

\* the Auto Play button is rendered while isPlaying is false
startAnimation ==
  /\ ~isPlaying
  /\ currentStep' = 0
  /\ isPlaying' = TRUE
  /\ completedCells' = {}
  /\ showExplanation' = FALSE
  /\ lastInput' = "start"
  /\ UNCHANGED <<selectedOperation, animationKey, calcVars, catVars, fnVars>>
  /\ Rerender
  /\ RenderLinks

\* the Reset button is rendered while isPlaying is true
resetAnimation ==
  /\ isPlaying
  /\ currentStep' = 0
  /\ isPlaying' = FALSE
  /\ completedCells' = {}
  /\ showExplanation' = TRUE
  /\ lastInput' = "reset"
  /\ UNCHANGED <<selectedOperation, animationKey, calcVars, catVars, fnVars>>
  /\ Rerender
  /\ RenderLinks

nextStep ==
  /\ currentStep < MaxStep
  /\ currentStep' = currentStep + 1
  /\ isPlaying' = TRUE
  /\ showExplanation' = FALSE
  /\ lastInput' = "next"
  /\ UNCHANGED <<selectedOperation, animationKey, completedCells, calcVars,
                 catVars, fnVars>>
  /\ Rerender
  /\ RenderLinks

\* the handler without its test of currentStep, behind a button that is
\* not disabled
prevStep_unguarded ==
  /\ currentStep' = currentStep - 1
  /\ isPlaying' = TRUE
  /\ lastInput' = "prev"
  /\ UNCHANGED <<selectedOperation, animationKey, completedCells,
                 showExplanation, calcVars, catVars, fnVars>>
  /\ Rerender
  /\ RenderLinks

\* the Previous button is disabled at step 0, and the handler tests it
\* again: no state is set there and nothing is rendered
prevStep ==
  IF currentStep > 0
  THEN /\ currentStep' = currentStep - 1
       /\ isPlaying' = TRUE
       /\ lastInput' = "prev"
       /\ UNCHANGED <<selectedOperation, animationKey, completedCells,
                      showExplanation, calcVars, catVars, fnVars>>
       /\ Rerender
       /\ RenderLinks
  ELSE UNCHANGED vars

\* the callback of setTimeout: setCurrentStep(currentStep + 1) with the
\* currentStep of the render that scheduled it
TimerFires ==
  /\ timer # NoTimer
  /\ currentStep' = timer.step + 1
  /\ UNCHANGED <<selectedOperation, animationKey, isPlaying, completedCells,
                 showExplanation, lastInput, calcVars, catVars, fnVars>>
  /\ Rerender
  /\ RenderLinks

AnimSpecInit ==
  /\ CalcInit
  /\ CatalogInit
  /\ call = NoCall
  /\ ret = NoRet
  /\ AnimInit

AnimNext ==
  \/ \E i \in 1..Len(operations) : handleOperationSelect(operations[i])
  \/ startAnimation
  \/ resetAnimation
  \/ nextStep
  \/ prevStep
  \/ TimerFires

SpecAnim == AnimSpecInit /\ [][AnimNext]_vars

(***************************************************************************)
(* Properties of calculateFlops                                            *)
(***************************************************************************)
FlopsReturned == call.fn = "calculateFlops" /\ ret # NoRet
AllDimsPositive(a, b) ==
  a.rows >= 1 /\ a.cols >= 1 /\ b.rows >= 1 /\ b.cols >= 1

\* C1: for positive m, n, p the product of an m x n and an n x p matrix
\* succeeds with output m x p, m*p*n multiplications, m*p*(n-1) additions
\* (0 when n = 1) and totalFlops = their sum = m*p*(2n-1); 3x4 times 4x5
\* gives 60, 45, 105 and output 3x5; 1x1 times 1x1 gives 1, 0, 1.
C1_FlopsFormula ==
  (FlopsReturned /\ AllDimsPositive(call.a, call.b)
     /\ call.a.cols = call.b.rows) =>
    LET m == call.a.rows
        n == call.a.cols
        p == call.b.cols
    IN /\ ret # Null
       /\ ret.outputDimensions = [rows |-> m, cols |-> p]
       /\ ret.multiplications = m * p * n
       /\ ret.additions = m * p * (n - 1)
       /\ (n = 1 => ret.additions = 0)
       /\ ret.totalFlops = ret.multiplications + ret.additions
       /\ ret.totalFlops = m * p * (2 * n - 1)
       /\ (<<m, n, p>> = <<3, 4, 5>> =>
             <<ret.multiplications, ret.additions, ret.totalFlops>>
               = <<60, 45, 105>>)
       /\ (<<m, n, p>> = <<1, 1, 1>> =>
             <<ret.multiplications, ret.additions, ret.totalFlops>>
               = <<1, 0, 1>>)

C1_Witness ==
  /\ FlopsReturned
  /\ call.a = [rows |-> 3, cols |-> 4]
  /\ call.b = [rows |-> 4, cols |-> 5]
  /\ ret # Null
  /\ ret.totalFlops = 105

\* C2: calculateFlops returns null, with no counts and no output shape, when
\* a.cols differs from b.rows, and it returns a result whenever a.cols equals
\* b.rows and every dimension is at least 1.
C2_ShapeMismatchFails ==
  FlopsReturned =>
    /\ (call.a.cols # call.b.rows => ret = Null)
    /\ (call.a.cols = call.b.rows /\ AllDimsPositive(call.a, call.b) =>
          ret # Null /\ DOMAIN ret =
            {"totalFlops", "multiplications", "additions", "outputDimensions"})

C2_Witness ==
  /\ FlopsReturned
  /\ call.a = [rows |-> 2, cols |-> 3]
  /\ call.b = [rows |-> 5, cols |-> 2]
  /\ ret = Null

\* C3: calculateFlops fails for every pair of shapes in which some dimension
\* is below 1, also when a.cols equals b.rows.
C3_EngineRejectsBelowOne ==
  (FlopsReturned /\ ~AllDimsPositive(call.a, call.b)) => ret = Null

(***************************************************************************)
(* Properties of the calculator's state                                    *)
(***************************************************************************)
\* C4: after any sequence of edits of the four dimension fields, every
\* dimension held in state and passed to calculateFlops is an integer >= 1.
C4_DimensionsAtLeastOne == AllDimsPositive(matrixA, matrixB)

\* C5: every result that calculateFlops returns in a state of the calculator
\* has multiplications, additions and totalFlops all non-negative.
C5_CountsNonNegative ==
  result # Null =>
    /\ result.multiplications >= 0
    /\ result.additions >= 0
    /\ result.totalFlops >= 0

(***************************************************************************)
(* Properties of calculateExecutionTime                                    *)
(***************************************************************************)
TimeReturned == call.fn = "calculateExecutionTime" /\ ret # NoRet
CallPrecision ==
  IF call.precision = Undefined THEN precisionTypes[1] ELSE call.precision
ZeroSeconds6 == Formatted(DigitString(FALSE, 0, 6), "s")
ZeroNanos3 == Formatted(DigitString(FALSE, 0, 3), "ns")

\* C6 as stated: totalFlops = 0 with a throughput > 0 yields seconds = 0 and
\* the string "0.000000 s".
C6_ZeroFlopsSeconds ==
  (TimeReturned /\ NumIsZero(call.totalFlops) /\ NumIsPos(call.gpuTflops)) =>
    /\ NumIsZero(ret.seconds)
    /\ ret.formatted = ZeroSeconds6

\* C6 amended: totalFlops = 0 with a throughput > 0 and any precision yields
\* seconds = 0, no division error, and the string "0.000 ns".
C6_ZeroFlopsNanos ==
  (TimeReturned /\ NumIsZero(call.totalFlops) /\ NumIsPos(call.gpuTflops)) =>
    /\ NumIsZero(ret.seconds)
    /\ ret.formatted = ZeroNanos3

C6_Witness ==
  /\ TimeReturned
  /\ NumIsZero(call.totalFlops)
  /\ call.gpuTflops = Dec(195, 10)
  /\ call.precision = precisionTypes[4]
  /\ ret.formatted.unit = "ns"

InvalidDeviceError == [kind |-> "InvalidDeviceError"]

\* C7: with a peak throughput <= 0 calculateExecutionTime returns an
\* InvalidDeviceError outcome, not an estimate.
C7_NonPositiveThroughputFails ==
  (TimeReturned /\ ~NumIsPos(call.gpuTflops)) => ret = InvalidDeviceError

\* the policy of C8: first match of seconds, milliseconds, microseconds >= 1,
\* else nanoseconds; 6, 6, 6 and 3 decimals; the number printed is >= 1
\* outside the nanosecond case
PrintedAtLeastOne(num) ==
  num.txt = "Infinity" \/ (num.txt = "digits" /\ num.scaled >= Pow10(num.decimals))
UnitPolicy(t) ==
  LET unit == IF NumGE(t.seconds, One) THEN "s"
              ELSE IF NumGE(t.milliseconds, One) THEN "ms"
              ELSE IF NumGE(t.microseconds, One) THEN "us"
              ELSE "ns"
      value == CASE unit = "s" -> t.seconds
                 [] unit = "ms" -> t.milliseconds
                 [] unit = "us" -> t.microseconds
                 [] OTHER -> t.nanoseconds
      decimals == IF unit = "ns" THEN 3 ELSE 6
  IN /\ t.formatted.unit = unit
     /\ t.formatted.num = toFixed(value, decimals)
     /\ (t.formatted.num.txt = "digits" => t.formatted.num.decimals = decimals)
     /\ (unit # "ns" => PrintedAtLeastOne(t.formatted.num) /\ ~t.formatted.num.neg)
IsScenario3 ==
  /\ NumEq(call.totalFlops, Int2Num(105))
  /\ NumEq(call.gpuTflops, Dec(195, 10))
  /\ NumEq(CallPrecision.multiplier, One)

C9_SecondsFormula ==
  (TimeReturned /\ ~NumIsNeg(call.totalFlops) /\ NumIsPos(call.gpuTflops)
     /\ NumIsPos(CallPrecision.multiplier)) =>
    LET t == call.gpuTflops
        k == CallPrecision.multiplier
        tk == Fin(t.n * k.n, t.d * k.d, t.e + k.e)
    IN /\ NumEq(getAdjustedTflops(t, CallPrecision), tk)
       /\ ret.seconds.k = "fin"
       /\ NumEq(NumMul(ret.seconds, NumMul(tk, Sci(1, 12))), call.totalFlops)

C9_Witness ==
  /\ TimeReturned
  /\ call.totalFlops = Sci(105, 12)
  /\ call.gpuTflops = Dec(67, 1)
  /\ call.precision = precisionTypes[2]
  /\ NumEq(ret.seconds, Fin(105, 134, 0))

\* C10: with totalFlops and the device fixed, a precision of multiplier k
\* gives exactly 1/k times the seconds of the baseline precision; with INT8
\* (4.0) a quarter of the FP32 value.
C10_PrecisionScaling ==
  (TimeReturned /\ NumIsPos(call.gpuTflops)) =>
    LET base == calculateExecutionTime(call.totalFlops, call.gpuTflops,
                                       precisionTypes[1])
    IN /\ NumEq(NumMul(ret.seconds, CallPrecision.multiplier), base.seconds)
       /\ (CallPrecision.value = "int8" =>
             NumEq(NumMul(ret.seconds, Int2Num(4)), base.seconds))

C10_Witness ==
  /\ TimeReturned
  /\ call.totalFlops = Sci(105, 0)
  /\ call.gpuTflops = Dec(195, 10)
  /\ call.precision = precisionTypes[4]
  /\ NumEq(ret.seconds, Fin(105, 78, 0 - 12))

\* x and y are the same value: equal numbers, or both NaN
SameNum(x, y) == NumEq(x, y) \/ (x.k = "nan" /\ y.k = "nan")

\* C11: every ExecutionTime returned has its four duration fields populated
\* and consistent: milliseconds = seconds * 10^3, microseconds = seconds *
\* 10^6, nanoseconds = seconds * 10^9, whatever unit the string uses.
C11_UnitConsistency ==
  TimeReturned =>
    /\ {"seconds", "milliseconds", "microseconds", "nanoseconds"}
         \subseteq DOMAIN ret
    /\ SameNum(ret.milliseconds, NumMul(ret.seconds, Sci(1, 3)))
    /\ SameNum(ret.microseconds, NumMul(ret.seconds, Sci(1, 6)))
    /\ SameNum(ret.nanoseconds, NumMul(ret.seconds, Sci(1, 9)))

C11_Witness ==
  /\ TimeReturned
  /\ call.totalFlops = Sci(105, 12)
  /\ call.gpuTflops = Dec(195, 10)
  /\ call.precision = precisionTypes[1]
  /\ ret.formatted.unit = "s"
  /\ NumEq(ret.microseconds, Fin(105, 195, 7))

\* C12: for positive m, n, p, raising one of them with the other two fixed
\* never lowers totalFlops.
C12_Monotone ==
  (FlopsReturned /\ AllDimsPositive(call.a, call.b)
     /\ call.a.cols = call.b.rows) =>
    LET m == call.a.rows
        n == call.a.cols
        p == call.b.cols
        Total(mm, nn, pp) ==
          calculateFlops(MatrixDimensions(mm, nn),
                         MatrixDimensions(nn, pp)).totalFlops
    IN /\ ret.totalFlops = Total(m, n, p)
       /\ Total(m + 1, n, p) >= ret.totalFlops
       /\ Total(m, n + 1, p) >= ret.totalFlops
       /\ Total(m, n, p + 1) >= ret.totalFlops

C12_Witness ==
  /\ FlopsReturned
  /\ call.a = [rows |-> 1, cols |-> 2]
  /\ call.b = [rows |-> 2, cols |-> 3]
  /\ ret # Null
  /\ ret.totalFlops = 9

(***************************************************************************)
(* What the calculator shows                                               *)
(***************************************************************************)
showsValidationMessage == ~isValid
showsResult == isValid /\ result # Null
showsExecutionTime == showsResult /\ executionTime # Null /\ selectedGpu # Null

\* C13: in every state reached by edits and selections the validation
\* message is shown exactly when matrixA.cols differs from matrixB.rows, and
\* then neither a result nor a time; otherwise the result is that of the
\* current shapes and the time that of the current GPU and precision.
C13_ShownFromCurrentState ==
  LET m == matrixA.rows
      n == matrixA.cols
      p == matrixB.cols
  IN /\ showsValidationMessage <=> (matrixA.cols # matrixB.rows)
     /\ showsValidationMessage => (~showsResult /\ ~showsExecutionTime)
     /\ ~showsValidationMessage =>
          /\ showsResult
          /\ result.outputDimensions = [rows |-> m, cols |-> p]
          /\ result.multiplications = m * p * n
          /\ result.additions = m * p * (n - 1)
          /\ result.totalFlops = m * p * (2 * n - 1)
          /\ showsExecutionTime <=> (selectedGpu # Null)
          /\ selectedGpu # Null =>
               /\ NumEq(NumMul(executionTime.seconds,
                               NumMul(NumMul(selectedGpu.tflops,
                                             selectedPrecision.multiplier),
                                      Sci(1, 12))),
                        Int2Num(m * p * (2 * n - 1)))
               /\ executionTime =
                    calculateExecutionTime(Int2Num(m * p * (2 * n - 1)),
                                           selectedGpu.tflops,
                                           selectedPrecision)

\* shapes made compatible again (2 x 2 times 2 x 4) on another GPU and
\* precision than the initial ones
C13_Witness ==
  /\ matrixA = [rows |-> 2, cols |-> 2]
  /\ matrixB = [rows |-> 2, cols |-> 4]
  /\ selectedGpu # Null
  /\ selectedGpu.name = "A100 PCIe 40GB"
  /\ selectedPrecision.value = "int8"
  /\ showsExecutionTime
  /\ result.totalFlops = 24
  /\ NumEq(executionTime.seconds, Fin(24, 78, 0 - 12))

(***************************************************************************)
(* Properties of the catalogs and of the lookups                           *)
(***************************************************************************)
GroupsReturned == call.fn = "getGpusBySeries" /\ ret # NoRet
FindReturned == call.fn = "findGpuByName" /\ ret # NoRet
CatalogIndex(gpu) ==
  CHOOSE i \in 1..Len(gpuCatalog) : gpuCatalog[i] = gpu
SameTflops(a, b) == NumEq(a.tflops, b.tflops)

\* C14: every group that getGpusBySeries returns is in order of non-increasing
\* tflops, devices of equal tflops keep their catalog order, and a second call
\* returns the same groups in the same order.
C14_GroupsSortedStable ==
  GroupsReturned =>
    /\ \A g \in 1..Len(ret) :
         \A i, j \in 1..Len(ret[g].gpus) :
           i < j =>
             /\ NumGE(ret[g].gpus[i].tflops, ret[g].gpus[j].tflops)
             /\ SameTflops(ret[g].gpus[i], ret[g].gpus[j]) =>
                  CatalogIndex(ret[g].gpus[i]) < CatalogIndex(ret[g].gpus[j])
    /\ getGpusBySeries(gpuCatalog) = ret

\* Hopper: the H100 NVL moved in front, the two 67 TFLOPS devices in catalog
\* order behind it
C14_Witness ==
  /\ GroupsReturned
  /\ ret[1].series = "Hopper"
  /\ [i \in 1..3 |-> ret[1].gpus[i].name] = <<"H100 NVL", "H100 PCIe", "H100 SXM">>

\* C15: after any sequence of edits and selections, each followed by a render
\* that calls getGpusBySeries, calculateFlops and calculateExecutionTime,
\* nvidiaGpus and precisionTypes hold the entries they held at start, with the
\* same field values, in the same order.
C15_CatalogsUnchanged ==
  /\ gpuCatalog = nvidiaGpus
  /\ precisionTable = precisionTypes

C15_Witness ==
  /\ matrixA.rows = 2
  /\ matrixB.cols = 4
  /\ selectedGpu # Null
  /\ selectedGpu.name = "A100 PCIe 40GB"
  /\ selectedPrecision.value = "fp16"
  /\ gpuCatalog[1].name = "H100 PCIe"
  /\ gpuCatalog[3].name = "H100 NVL"

\* C16: every entry of nvidiaGpus has tflops > 0, every entry of
\* precisionTypes has multiplier > 0, and the adjusted throughput of every
\* (GPU, precision) pair is > 0.
C16_CatalogPositive ==
  /\ \A i \in 1..Len(gpuCatalog) : NumIsPos(gpuCatalog[i].tflops)
  /\ \A j \in 1..Len(precisionTable) : NumIsPos(precisionTable[j].multiplier)
  /\ \A i \in 1..Len(gpuCatalog) : \A j \in 1..Len(precisionTable) :
       NumIsPos(getAdjustedTflops(gpuCatalog[i].tflops, precisionTable[j]))

\* the slowest pair that involves the A100: 19.5 TFLOPS at FP64 is 9.75
C16_Witness ==
  /\ TimeReturned
  /\ call.gpuTflops = gpuCatalog[4].tflops
  /\ call.precision = precisionTable[6]
  /\ call.totalFlops = Sci(195, 11)
  /\ NumEq(getAdjustedTflops(call.gpuTflops, call.precision), Dec(975, 100))
  /\ NumEq(ret.seconds, Int2Num(2))

\* C17: no two entries of nvidiaGpus share a name and no two entries of
\* precisionTypes share a value; a lookup by the name or value of an entry
\* returns that entry, and a lookup of any other name returns nothing.
C17_KeysUnique ==
  /\ \A i, j \in 1..Len(gpuCatalog) :
       gpuCatalog[i].name = gpuCatalog[j].name => i = j
  /\ \A i, j \in 1..Len(precisionTable) :
       precisionTable[i].value = precisionTable[j].value => i = j
  /\ \A j \in 1..Len(precisionTable) :
       Find(precisionTable,
            {i \in 1..Len(precisionTable) :
               precisionTable[i].value = precisionTable[j].value})
         = precisionTable[j]
  /\ FindReturned =>
       /\ \A i \in 1..Len(gpuCatalog) :
            gpuCatalog[i].name = call.name => ret = gpuCatalog[i]
       /\ (\A i \in 1..Len(gpuCatalog) : gpuCatalog[i].name # call.name) =>
            ret = Null

C17_Witness ==
  /\ FindReturned
  /\ call.name = "H100 SXM"
  /\ ret = gpuCatalog[2]

\* C18: after any sequence of GPU and precision selections, also of values
\* that match no entry, selectedPrecision is an entry of precisionTypes,
\* selectedGpu is an entry of nvidiaGpus or null, and an execution time is
\* computed only while selectedGpu is not null.
C18_SelectionsWellFormed ==
  /\ \E j \in 1..Len(precisionTable) : selectedPrecision = precisionTable[j]
  /\ \/ selectedGpu = Null
     \/ \E i \in 1..Len(gpuCatalog) : selectedGpu = gpuCatalog[i]
  /\ executionTime # Null => selectedGpu # Null
  /\ selectedGpu = Null => ~showsExecutionTime

C18_Witness ==
  /\ selectedGpu = Null
  /\ selectedPrecision = precisionTable[4]
  /\ isValid
  /\ executionTime = Null

\* C19: the precision table is exactly fp32 1.0, fp16 2.0, bf16 2.0,
\* int8 4.0, int4 8.0, fp64 0.5, and the precision used when none is given is
\* the baseline fp32 of multiplier 1.0.
C19_PrecisionTable ==
  /\ Len(precisionTable) = 6
  /\ [j \in 1..6 |-> precisionTable[j].value]
       = <<"fp32", "fp16", "bf16", "int8", "int4", "fp64">>
  /\ NumEq(precisionTable[1].multiplier, Int2Num(1))
  /\ NumEq(precisionTable[2].multiplier, Int2Num(2))
  /\ NumEq(precisionTable[3].multiplier, Int2Num(2))
  /\ NumEq(precisionTable[4].multiplier, Int2Num(4))
  /\ NumEq(precisionTable[5].multiplier, Int2Num(8))
  /\ NumEq(precisionTable[6].multiplier, Dec(1, 2))
  /\ selectedPrecision.value = "fp32"
  /\ (TimeReturned /\ call.precision = Undefined /\ NumIsPos(call.gpuTflops)) =>
       NumEq(NumMul(ret.seconds, NumMul(call.gpuTflops, Sci(1, 12))),
             call.totalFlops)

C19_Witness ==
  /\ TimeReturned
  /\ call.precision = Undefined
  /\ call.totalFlops = Sci(105, 12)
  /\ call.gpuTflops = Dec(195, 10)
  /\ NumEq(ret.seconds, Fin(105, 195, 1))

(***************************************************************************)
(* Properties of the animation                                             *)
(***************************************************************************)
\* the run since the last Auto Play click consists of timer ticks only
AutoPlayRun == lastInput = "start"
TimerStopped == isPlaying /\ timer = NoTimer
InPhase2 == currentStep >= Len(processes) * 9

\* C20: in a run of the all-reduce animation started with Auto Play and left
\* alone, the timer stops advancing only in the phase-2 region: when no tick
\* is pending any more, currentStep >= processes.length * 9, the centre SUM
\* matrix is active, and the links and the moving cells lead from the centre
\* to the GPUs.
C20_AutoPlayReachesPhase2 ==
  (selectedOperation.visualization = "all-reduce" /\ AutoPlayRun
     /\ TimerStopped) =>
    /\ InPhase2
    /\ CentreIsActive
    /\ \A i \in 1..Len(processes) :
         AllReduceConnections(isPlaying, currentStep)[i].from = center
    /\ \A c \in AllReduceActiveCells(currentStep) : c.sourceId = center

\* C21: a click on Next while isPlaying is false increases currentStep by
\* exactly 1 and leaves no timer pending, so the counter stays at that value
\* until the next click.
C21_NextStepsManually ==
  [][(~isPlaying /\ lastInput' = "next") =>
       /\ currentStep' = currentStep + 1
       /\ timer' = NoTimer]_vars

(***************************************************************************)
(* Properties of the dropdown                                              *)
(***************************************************************************)
OptionsReturned == call.fn = "filteredOptions" /\ ret # NoRet

\* the two characters are the same letter in either case, or the same
\* character
SameIgnoringCase(a, b) ==
  \/ a = b
  \/ \E k \in 1..Len(UpperCase) :
       {a, b} = {UpperCase[k], LowerCase[k]}

\* term occurs in text at some offset, letter case ignored
OccursIn(term, text) ==
  \E off \in 0..(Len(text) - Len(term)) :
    \A k \in 1..Len(term) : SameIgnoringCase(text[off + k], term[k])

ShouldBeListed(option, term) ==
  \/ OccursIn(term, option.label)
  \/ OccursIn(term, option.value)
  \/ HasGroup(option) /\ OccursIn(term, option.group)

\* how often the list that was drawn holds the option
TimesListed(option) ==
  Cardinality({ <<g, i>> \in (1..Len(ret.groups)) \X (1..Len(call.options)) :
                  /\ i <= Len(ret.groups[g].options)
                  /\ ret.groups[g].options[i] = option })

\* C22: an option is listed (once) if and only if the search term is a
\* case-insensitive substring of its label, its value or its group; with an
\* empty search term every option is listed; 'No options found' is shown
\* exactly when no option matches.
C22_ListIsSearchFilter ==
  OptionsReturned =>
    /\ \A i \in 1..Len(call.options) :
         TimesListed(call.options[i]) =
           IF ShouldBeListed(call.options[i], call.searchTerm) THEN 1 ELSE 0
    /\ call.searchTerm = <<>> =>
         \A i \in 1..Len(call.options) : TimesListed(call.options[i]) = 1
    /\ ret.noOptionsFound <=>
         \A i \in 1..Len(call.options) :
           ~ShouldBeListed(call.options[i], call.searchTerm)

\* "HOP" is in no label and no value, only in the group Hopper
C22_Witness ==
  /\ OptionsReturned
  /\ call.options = GpuOptionsSample
  /\ call.searchTerm = <<"H", "O", "P">>
  /\ ~ret.noOptionsFound
  /\ Len(ret.groups) = 1
  /\ ret.groups[1].options = SubSeq(GpuOptionsSample, 1, 2)

\* the step limits as the claim states them
StatedLimit(visualization) ==
  CASE visualization = "all-reduce" -> 24
    [] visualization = "all-gather" -> 144
    [] visualization = "broadcast" -> 27
    [] visualization \in {"gather", "scatter", "reduce"} -> 36

\* C23: in a run started with Auto Play and left alone, every step is a tick
\* that increases currentStep by exactly 1 and never past the operation's
\* limit (24, 144, 36 or 27); a tick is pending at every step below the limit,
\* and at the limit none is, so nothing but a click changes currentStep then.
C23_AutoPlayTerminates ==
  /\ [](AutoPlayRun =>
          /\ isPlaying
          /\ currentStep <= StatedLimit(selectedOperation.visualization)
          /\ timer = NoTimer <=>
               currentStep = StatedLimit(selectedOperation.visualization)
          /\ timer # NoTimer => timer.step = currentStep)
  /\ [][(AutoPlayRun /\ lastInput' = "start") =>
          /\ timer # NoTimer
          /\ currentStep' = currentStep + 1
          /\ currentStep' <= StatedLimit(selectedOperation.visualization)]_vars

C23_Witness ==
  /\ AutoPlayRun
  /\ selectedOperation.visualization = "all-gather"
  /\ currentStep = 144
  /\ timer = NoTimer

Idle == lastInput \in {"reset", "select"}

\* C24: after Reset or after selecting an operation, currentStep = 0,
\* isPlaying is false, completedCells is empty, the explanation is shown and
\* no timer is pending, so currentStep stays 0 until the next click; selecting
\* increases animationKey (the visualization is remounted), Reset leaves
\* selectedOperation and animationKey unchanged.
C24_IdleCancelsAnimation ==
  /\ [](Idle =>
          /\ currentStep = 0
          /\ ~isPlaying
          /\ completedCells = {}
          /\ showExplanation
          /\ timer = NoTimer)
  /\ [][/\ lastInput' = "reset" =>
             /\ selectedOperation' = selectedOperation
             /\ animationKey' = animationKey
        /\ (lastInput' = "select" /\ vars' # vars) =>
             animationKey' = animationKey + 1
        /\ (Idle /\ lastInput' = lastInput /\ animationKey' = animationKey) =>
             currentStep' = 0]_vars

\* Gather was selected and played, then Reset was clicked
C24_Witness ==
  /\ lastInput = "reset"
  /\ selectedOperation.visualization = "gather"
  /\ animationKey = 1
  /\ currentStep = 0
  /\ timer = NoTimer

\* C25: every line that NVLinkConnections has drawn is shown active if and
\* only if, with the props of that render, isPlaying is true and currentStep
\* has reached the threshold of that link; no line is shown active while
\* isPlaying is false.
C25_LinksShowCurrentProps ==
  \A k \in 1..Len(shownLinks) :
    /\ shownLinks[k].active =
         ConnectionActive(updateConnections(selectedOperation.visualization,
                                            isPlaying, currentStep),
                          shownLinks[k].from, shownLinks[k].to)
    /\ shownLinks[k].active => isPlaying

\* C26: currentStep is never negative, whatever the order of Next, Previous,
\* Auto Play, Reset, operation selection and timer ticks, and Previous at
\* currentStep = 0 changes neither currentStep nor isPlaying.
C26_StepNeverNegative ==
  /\ [](currentStep >= 0)
  /\ [][(currentStep = 0 /\ prevStep) =>
          UNCHANGED <<currentStep, isPlaying>>]_vars

\* Previous has brought the counter back to 0
C26_Witness ==
  /\ lastInput = "prev"
  /\ currentStep = 0
  /\ isPlaying

\* the number of destinations as the claim states them
StatedDestinations(visualization) ==
  CASE visualization \in {"gather", "scatter"} -> 4
    [] visualization = "broadcast" -> 3
    [] visualization = "all-gather" -> 16
    [] visualization = "reduce" -> 9

FillsDestinations ==
  selectedOperation.visualization
    \in {"gather", "scatter", "broadcast", "all-gather", "reduce"}

\* C27: for gather, scatter, broadcast, all-gather and reduce, in a run
\* started with Auto Play and left alone, every destination (4, 4, 3, 16
\* chunks, 9 result cells) is revealed when the timer has stopped; and while
\* playing, a destination that is revealed stays revealed as currentStep grows.
C27_DestinationsFilled ==
  /\ [](FillsDestinations =>
          /\ Cardinality(Destinations(selectedOperation.visualization))
               = StatedDestinations(selectedOperation.visualization)
          /\ (AutoPlayRun /\ TimerStopped) =>
               \A d \in Destinations(selectedOperation.visualization) :
                 Revealed(d))
  /\ [][(FillsDestinations /\ selectedOperation' = selectedOperation
           /\ isPlaying /\ isPlaying' /\ currentStep' >= currentStep) =>
          \A d \in Destinations(selectedOperation.visualization) :
            Revealed(d) => Revealed(d)']_vars

\* the last chunk of all-gather appears at step 135, the timer stops at 144
C27_Witness ==
  /\ AutoPlayRun
  /\ TimerStopped
  /\ selectedOperation.visualization = "all-gather"
  /\ \A d \in Destinations("all-gather") : Revealed(d)
  /\ \E d \in Destinations("all-gather") : d.threshold = 135

\* C28: the fill of the step progress bar stays within its track: in every
\* reachable state its width is between 0% and 100%.
C28_ProgressWithinTrack ==
  /\ ~NumIsNeg(progressWidth)
  /\ NumIsZero(progressWidth) \/ NumGE(Int2Num(100), progressWidth)

(***************************************************************************)
(* Properties of the grouping                                              *)
(***************************************************************************)
\* the places (group, position) at which the returned groups hold the device
PlacesOf(gpu) ==
  { <<g, i>> \in (1..Len(ret)) \X (1..Len(gpuCatalog)) :
      i <= Len(ret[g].gpus) /\ ret[g].gpus[i] = gpu }

\* C29: in the result of getGpusBySeries every entry of nvidiaGpus appears
\* exactly once, in the group keyed by its own series; no group is empty, no
\* group holds a device of another series or a device that is not in the
\* catalog, no series has two groups; and the dropdown options built from the
\* result correspond one to one to the catalog entries.
C29_GroupingIsPartition ==
  GroupsReturned =>
    LET options == gpuOptions(ret)
    IN /\ \A c \in 1..Len(gpuCatalog) :
            /\ Cardinality(PlacesOf(gpuCatalog[c])) = 1
            /\ \A p \in PlacesOf(gpuCatalog[c]) :
                 ret[p[1]].series = gpuCatalog[c].series
       /\ \A g \in 1..Len(ret) :
            /\ Len(ret[g].gpus) > 0
            /\ \A i \in 1..Len(ret[g].gpus) :
                 /\ ret[g].gpus[i].series = ret[g].series
                 /\ \E c \in 1..Len(gpuCatalog) : gpuCatalog[c] = ret[g].gpus[i]
            /\ \A h \in 1..Len(ret) : ret[h].series = ret[g].series => h = g
       /\ Len(options) = Len(gpuCatalog)
       /\ \A c \in 1..Len(gpuCatalog) :
            Cardinality({k \in 1..Len(options) :
                           options[k].value = gpuCatalog[c].name}) = 1
       /\ \A k \in 1..Len(options) :
            \E c \in 1..Len(gpuCatalog) :
              /\ options[k].value = gpuCatalog[c].name
              /\ options[k].group = gpuCatalog[c].series

C29_Witness ==
  /\ GroupsReturned
  /\ Len(gpuCatalog) = 91
  /\ Len(ret) > 1
  /\ Len(ret[1].gpus) = 3
  /\ gpuOptions(ret)[1] = [value |-> "H100 NVL", group |-> "Hopper"]
  /\ Len(gpuOptions(ret)) = 91

====
